---- MODULE Spec2Model ----
\* Movie collection manager: the JSON-file-backed movie storage
\* (storage/storage_json.py, and the older storage_json.py) and the menu
\* commands of movie_app.py that call it.
\*
\* A Python str is a sequence of one-character strings, so that strip(),
\* lower(), slicing and int()/float() parsing act on characters.
\* A Python value is a tagged record [t, v]:
\*   "dict"  v = sequence of <<key, value>> pairs in insertion order, keys unique
\*   "list"  v = sequence of values
\*   "str"   v = sequence of characters
\*   "int"   v = the integer
\*   "float" v = the value in tenths (88 is 8.8)
\*   "none"  None
\*   "set"   a Python set: a value json.dump cannot serialize
\* The file of a StorageCsv is [kind, rows]: kind "missing" or "csv", rows the
\* lines of the file, each a sequence of cells, each cell a str.
\* The backing file is [kind, toks]: kind "missing" (no file at the path),
\* "bytes" (content that is not decodable text) or "text", whose content is the
\* sequence of JSON tokens toks (whitespace, which json.load skips, is left out).
EXTENDS Integers, Sequences, FiniteSets, TLC

VARIABLES file, adapters, last, pre, written, app, csvfile, csvlast

vars == <<file, adapters, last, pre, written, app, csvfile, csvlast>>

----------------------------------------------------------------------------
\* Python values

PNone == [t |-> "none", v |-> <<>>]

PInt(n) == [t |-> "int", v |-> n]

PFloat(tenths) == [t |-> "float", v |-> tenths]

PStr(s) == [t |-> "str", v |-> s]

PDict(pairs) == [t |-> "dict", v |-> pairs]

PList(items) == [t |-> "list", v |-> items]

PSet == [t |-> "set", v |-> <<>>]

Range(s) == {s[i] : i \in 1..Len(s)}

\* dict operations on a sequence of <<key, value>> pairs
DictKeys(d) == {d[i][1] : i \in 1..Len(d)}

DictHas(d, k) == \E i \in 1..Len(d) : d[i][1] = k

DictGet(d, k) == d[CHOOSE i \in 1..Len(d) : d[i][1] = k][2]

\* d[k] = v : an existing key keeps its position, a new key goes last
DictSet(d, k, v) ==
    IF DictHas(d, k)
    THEN [i \in 1..Len(d) |-> IF d[i][1] = k THEN <<k, v>> ELSE d[i]]
    ELSE Append(d, <<k, v>>)

\* del d[k]
DictDel(d, k) == SelectSeq(d, LAMBDA p : p[1] # k)

RECURSIVE DictUpdateFrom(_, _, _)
DictUpdateFrom(d, e, i) ==
    IF i > Len(e) THEN d
    ELSE DictUpdateFrom(DictSet(d, e[i][1], e[i][2]), e, i + 1)

\* d.update(e)
DictUpdate(d, e) == DictUpdateFrom(d, e, 1)

\* Python == on the values of the model: dicts compare by keys and values,
\* whatever the insertion order
RECURSIVE PyEq(_, _)
PyEq(a, b) ==
    IF a.t = "dict" /\ b.t = "dict"
    THEN /\ DictKeys(a.v) = DictKeys(b.v)
         /\ \A k \in DictKeys(a.v) : PyEq(DictGet(a.v, k), DictGet(b.v, k))
    ELSE a = b

\* s is a contiguous part of u (Python's `s in u` on two str)
IsSubstring(s, u) ==
    \E i \in 0..(Len(u) - Len(s)) : SubSeq(u, i + 1, i + Len(s)) = s

----------------------------------------------------------------------------
\* JSON text: json.dump and json.load

\* a token: its kind t ("p" a punctuation mark, "str", "int", "float", "null")
\* and its text lex
Tok(t, lex) == [t |-> t, lex |-> lex]

LBrace == Tok("p", "{")

RBrace == Tok("p", "}")

LBracket == Tok("p", "[")

RBracket == Tok("p", "]")

Colon == Tok("p", ":")

Comma == Tok("p", ",")

\* a chunk of text that is no JSON token
Junk == Tok("junk", "?")

IsTok(tk, p) == tk.t = "p" /\ tk.lex = p

\* json.dump writes the chunks of iterencode one by one; a value it cannot
\* serialize raises TypeError after the chunks before it were written.
\* [ok, toks]: toks are the chunks written, ok is FALSE when TypeError was raised.
RECURSIVE EncValue(_), EncMembers(_, _), EncItems(_, _)
EncValue(v) ==
    CASE v.t = "str" -> [ok |-> TRUE, toks |-> <<Tok("str", v.v)>>]
      [] v.t = "int" -> [ok |-> TRUE, toks |-> <<Tok("int", v.v)>>]
      [] v.t = "float" -> [ok |-> TRUE, toks |-> <<Tok("float", v.v)>>]
      [] v.t = "none" -> [ok |-> TRUE, toks |-> <<Tok("null", "null")>>]
      [] v.t = "dict" ->
            LET r == EncMembers(v.v, 1)
            IN  [ok |-> r.ok,
                 toks |-> <<LBrace>> \o r.toks \o (IF r.ok THEN <<RBrace>> ELSE <<>>)]
      [] v.t = "list" ->
            LET r == EncItems(v.v, 1)
            IN  [ok |-> r.ok,
                 toks |-> <<LBracket>> \o r.toks \o (IF r.ok THEN <<RBracket>> ELSE <<>>)]
      [] OTHER -> [ok |-> FALSE, toks |-> <<>>]

EncMembers(d, i) ==
    IF i > Len(d) THEN [ok |-> TRUE, toks |-> <<>>]
    ELSE LET head == (IF i > 1 THEN <<Comma>> ELSE <<>>)
                        \o <<Tok("str", d[i][1]), Colon>>
             rv == EncValue(d[i][2])
         IN  IF ~rv.ok THEN [ok |-> FALSE, toks |-> head \o rv.toks]
             ELSE LET rest == EncMembers(d, i + 1)
                  IN  [ok |-> rest.ok, toks |-> head \o rv.toks \o rest.toks]

EncItems(l, i) ==
    IF i > Len(l) THEN [ok |-> TRUE, toks |-> <<>>]
    ELSE LET head == IF i > 1 THEN <<Comma>> ELSE <<>>
             rv == EncValue(l[i])
         IN  IF ~rv.ok THEN [ok |-> FALSE, toks |-> head \o rv.toks]
             ELSE LET rest == EncItems(l, i + 1)
                  IN  [ok |-> rest.ok, toks |-> head \o rv.toks \o rest.toks]

ParseFail == [ok |-> FALSE, val |-> PNone, next |-> 0]

\* the JSON parser of json.load: the value that starts at token i and the index
\* after it; a repeated key of an object keeps its last value
RECURSIVE ParseValue(_, _), ParseMembers(_, _, _), ParseItems(_, _, _)
ParseValue(toks, i) ==
    IF i > Len(toks) THEN ParseFail
    ELSE LET tk == toks[i]
         IN  CASE tk.t = "str" -> [ok |-> TRUE, val |-> PStr(tk.lex), next |-> i + 1]
               [] tk.t = "int" -> [ok |-> TRUE, val |-> PInt(tk.lex), next |-> i + 1]
               [] tk.t = "float" -> [ok |-> TRUE, val |-> PFloat(tk.lex), next |-> i + 1]
               [] tk.t = "null" -> [ok |-> TRUE, val |-> PNone, next |-> i + 1]
               [] IsTok(tk, "{") ->
                     IF i + 1 <= Len(toks) /\ IsTok(toks[i + 1], "}")
                     THEN [ok |-> TRUE, val |-> PDict(<<>>), next |-> i + 2]
                     ELSE ParseMembers(toks, i + 1, <<>>)
               [] IsTok(tk, "[") ->
                     IF i + 1 <= Len(toks) /\ IsTok(toks[i + 1], "]")
                     THEN [ok |-> TRUE, val |-> PList(<<>>), next |-> i + 2]
                     ELSE ParseItems(toks, i + 1, <<>>)
               [] OTHER -> ParseFail

\* key : value at token i, then "," and more members, or "}"
ParseMembers(toks, i, acc) ==
    IF i + 1 > Len(toks) THEN ParseFail
    ELSE IF ~(toks[i].t = "str" /\ IsTok(toks[i + 1], ":")) THEN ParseFail
    ELSE LET r == ParseValue(toks, i + 2)
         IN  IF ~r.ok \/ r.next > Len(toks) THEN ParseFail
             ELSE LET d == DictSet(acc, toks[i].lex, r.val)
                  IN  CASE IsTok(toks[r.next], ",") -> ParseMembers(toks, r.next + 1, d)
                        [] IsTok(toks[r.next], "}") ->
                              [ok |-> TRUE, val |-> PDict(d), next |-> r.next + 1]
                        [] OTHER -> ParseFail

ParseItems(toks, i, acc) ==
    LET r == ParseValue(toks, i)
    IN  IF ~r.ok \/ r.next > Len(toks) THEN ParseFail
        ELSE LET l == Append(acc, r.val)
             IN  CASE IsTok(toks[r.next], ",") -> ParseItems(toks, r.next + 1, l)
                   [] IsTok(toks[r.next], "]") ->
                         [ok |-> TRUE, val |-> PList(l), next |-> r.next + 1]
                   [] OTHER -> ParseFail

\* json.load on the whole text: one value and nothing after it, or JSONDecodeError
JsonLoad(toks) ==
    LET r == ParseValue(toks, 1)
    IN  IF r.ok /\ r.next = Len(toks) + 1
        THEN [ok |-> TRUE, val |-> r.val]
        ELSE [ok |-> FALSE, val |-> PNone]

\* json.dump(value, file, indent=4) on a file just opened with 'w'
JsonDump(v) == EncValue(v)

----------------------------------------------------------------------------
\* The backing file

Missing == [kind |-> "missing", toks |-> <<>>]

Text(toks) == [kind |-> "text", toks |-> toks]

Undecodable == [kind |-> "bytes", toks |-> <<>>]

\* the keys of a movie's details
kRating == <<"r", "a", "t", "i", "n", "g">>

kYear == <<"y", "e", "a", "r">>

kPoster == <<"p", "o", "s", "t", "e", "r">>

kImdbID == <<"i", "m", "d", "b", "I", "D">>

kNotes == <<"n", "o", "t", "e", "s">>

----------------------------------------------------------------------------
\* StorageJson (storage/storage_json.py; storage_json.py is the older copy,
\* the same but for __init__)

\* what a call left behind: the exception that escaped it ("none" when it
\* returned), the value it returned, the backing file after it, whether it
\* opened the file for writing, and the mapping it passed to _write_movies
Outcome(exc, ret, f) ==
    [exc |-> exc, ret |-> ret, file |-> f, wrote |-> FALSE, saved |-> PNone]

Saved(movies, w) ==
    [exc |-> w.exc, ret |-> PNone, file |-> w.file, wrote |-> TRUE, saved |-> movies]

\* a _read_movies without the except clause for json.JSONDecodeError
_read_movies_raising(f) ==
    CASE f.kind = "missing" -> [exc |-> "none", ret |-> PDict(<<>>)]
      [] f.kind = "bytes" -> [exc |-> "UnicodeDecodeError", ret |-> PNone]
      [] OTHER -> LET r == JsonLoad(f.toks)
                  IN  IF r.ok THEN [exc |-> "none", ret |-> r.val]
                      ELSE [exc |-> "JSONDecodeError", ret |-> PNone]

\* _read_movies: FileNotFoundError and JSONDecodeError are caught and give {};
\* whatever json.load returns is returned as it is
_read_movies(f) ==
    CASE f.kind = "missing" -> [exc |-> "none", ret |-> PDict(<<>>)]
      [] f.kind = "bytes" -> [exc |-> "UnicodeDecodeError", ret |-> PNone]
      [] OTHER -> LET r == JsonLoad(f.toks)
                  IN  [exc |-> "none", ret |-> IF r.ok THEN r.val ELSE PDict(<<>>)]

KeepRatingYear(details) ==
    IF details.t = "dict"
    THEN PDict(SelectSeq(details.v, LAMBDA p : p[1] \in {kRating, kYear}))
    ELSE details

\* a writer that keeps the rating and the year of a movie and nothing else
_write_movies_rating_year(movies) ==
    LET kept == IF movies.t = "dict"
                THEN PDict([i \in 1..Len(movies.v) |->
                              <<movies.v[i][1], KeepRatingYear(movies.v[i][2])>>])
                ELSE movies
        e == JsonDump(kept)
    IN  [exc |-> IF e.ok THEN "none" ELSE "TypeError", file |-> Text(e.toks)]

\* _write_movies: open(path, 'w') empties the file, json.dump then writes chunk
\* by chunk, and the with block closes the file with whatever was written
_write_movies(movies) ==
    LET e == JsonDump(movies)
    IN  [exc |-> IF e.ok THEN "none" ELSE "TypeError", file |-> Text(e.toks)]

\* a list_movies that answers from what an earlier call loaded
list_movies_stale(f) ==
    LET r == _read_movies(pre)
    IN  Outcome(r.exc, r.ret, f)

\* list_movies
list_movies(f) ==
    LET r == _read_movies(f)
    IN  Outcome(r.exc, r.ret, f)

\* `title in movies` on what _read_movies returned
Contains(movies, title) ==
    CASE movies.t = "dict" -> [exc |-> "none", val |-> DictHas(movies.v, title)]
      [] movies.t = "list" -> [exc |-> "none", val |-> PStr(title) \in Range(movies.v)]
      [] movies.t = "str" -> [exc |-> "none", val |-> IsSubstring(title, movies.v)]
      [] OTHER -> [exc |-> "TypeError", val |-> FALSE]

\* an add_movie that merges into the record already at the title
add_movie_merging(f, title, details) ==
    LET r == _read_movies(f)
        old == IF r.ret.t = "dict" /\ DictHas(r.ret.v, title) /\ DictGet(r.ret.v, title).t = "dict"
               THEN DictGet(r.ret.v, title).v ELSE <<>>
    IN  IF r.exc # "none" THEN Outcome(r.exc, PNone, f)
        ELSE IF r.ret.t # "dict" THEN Outcome("TypeError", PNone, f)
        ELSE LET movies == PDict(DictSet(r.ret.v, title, PDict(DictUpdate(old, details.v))))
             IN  Saved(movies, _write_movies(movies))

\* an add_movie that writes a mapping of the added movie alone
add_movie_alone(f, title, details) ==
    LET r == list_movies(f)
    IN  IF r.exc # "none" THEN Outcome(r.exc, PNone, f)
        ELSE IF r.ret.t # "dict" THEN Outcome("TypeError", PNone, f)
        ELSE LET movies == PDict(<< <<title, details>> >>)
             IN  Saved(movies, _write_movies(movies))

\* add_movie: movies[title] = details, then the whole mapping is written
add_movie(f, title, details) ==
    LET r == list_movies(f)
    IN  IF r.exc # "none" THEN Outcome(r.exc, PNone, f)
        ELSE IF r.ret.t # "dict" THEN Outcome("TypeError", PNone, f)
        ELSE LET movies == PDict(DictSet(r.ret.v, title, details))
             IN  Saved(movies, _write_movies(movies))

\* a delete_movie that lets an absent title pass, as StorageCsv.delete_movie does
delete_movie_silent(f, title) ==
    LET r == _read_movies(f)
        c == Contains(r.ret, title)
    IN  IF r.exc # "none" THEN Outcome(r.exc, PNone, f)
        ELSE IF c.exc # "none" THEN Outcome(c.exc, PNone, f)
        ELSE IF ~c.val THEN Outcome("none", PNone, f)
        ELSE IF r.ret.t # "dict" THEN Outcome("TypeError", PNone, f)
        ELSE LET movies == PDict(DictDel(r.ret.v, title))
             IN  Saved(movies, _write_movies(movies))

\* a delete_movie that writes the mapping back with the title still in it
delete_movie_keeping(f, title) ==
    LET r == _read_movies(f)
        c == Contains(r.ret, title)
    IN  IF r.exc # "none" THEN Outcome(r.exc, PNone, f)
        ELSE IF c.exc # "none" THEN Outcome(c.exc, PNone, f)
        ELSE IF ~c.val THEN Outcome("ValueError", PNone, f)
        ELSE Saved(r.ret, _write_movies(r.ret))

\* delete_movie: ValueError when the title is not in the mapping
delete_movie(f, title) ==
    LET r == _read_movies(f)
        c == Contains(r.ret, title)
    IN  IF r.exc # "none" THEN Outcome(r.exc, PNone, f)
        ELSE IF c.exc # "none" THEN Outcome(c.exc, PNone, f)
        ELSE IF ~c.val THEN Outcome("ValueError", PNone, f)
        ELSE IF r.ret.t # "dict" THEN Outcome("TypeError", PNone, f)
        ELSE LET movies == PDict(DictDel(r.ret.v, title))
             IN  Saved(movies, _write_movies(movies))

\* an update_movie that puts the given fields in place of the record
update_movie_replacing(f, title, details) ==
    LET r == _read_movies(f)
        c == Contains(r.ret, title)
    IN  IF r.exc # "none" THEN Outcome(r.exc, PNone, f)
        ELSE IF c.exc # "none" THEN Outcome(c.exc, PNone, f)
        ELSE IF ~c.val THEN Outcome("ValueError", PNone, f)
        ELSE IF r.ret.t # "dict" THEN Outcome("TypeError", PNone, f)
        ELSE LET movies == PDict(DictSet(r.ret.v, title, details))
             IN  Saved(movies, _write_movies(movies))

\* update_movie: ValueError when the title is not in the mapping, else
\* movies[title].update(details)
update_movie(f, title, details) ==
    LET r == _read_movies(f)
        c == Contains(r.ret, title)
    IN  IF r.exc # "none" THEN Outcome(r.exc, PNone, f)
        ELSE IF c.exc # "none" THEN Outcome(c.exc, PNone, f)
        ELSE IF ~c.val THEN Outcome("ValueError", PNone, f)
        ELSE IF r.ret.t # "dict" THEN Outcome("TypeError", PNone, f)
        ELSE IF DictGet(r.ret.v, title).t # "dict"
             THEN Outcome("AttributeError", PNone, f)
        ELSE LET merged == PDict(DictUpdate(DictGet(r.ret.v, title).v, details.v))
                 movies == PDict(DictSet(r.ret.v, title, merged))
             IN  Saved(movies, _write_movies(movies))

\* an __init__ that writes the document {} whether the path exists or not
InitStorage_rewriting(f) == Saved(PDict(<<>>), _write_movies(PDict(<<>>)))

\* storage/storage_json.py __init__: a path that does not exist gets the
\* document {}
InitStorage(f) ==
    IF f.kind = "missing"
    THEN Saved(PDict(<<>>), _write_movies(PDict(<<>>)))
    ELSE Outcome("none", PNone, f)

\* storage_json.py __init__: keeps the path and touches nothing
InitLegacy(f) == Outcome("none", PNone, f)

Variants == {"storage", "legacy"}

----------------------------------------------------------------------------
\* The file of a StorageCsv (storage_csv.py) and what a call on it left

CsvMissing == [kind |-> "missing", rows |-> <<>>]

CsvFile(rows) == [kind |-> "csv", rows |-> rows]

CsvOutcome(exc, ret, c) == [exc |-> exc, ret |-> ret, file |-> c]

NoCsvCall == [exc |-> "none", ret |-> PNone]

----------------------------------------------------------------------------
\* Inputs of the model

\* the record add_movie of movie_app.py builds
Details(rating, year, poster, imdbID) ==
    PDict(<< <<kRating, rating>>, <<kYear, year>>, <<kPoster, poster>>,
             <<kImdbID, imdbID>> >>)

WithNotes(r, notes) == PDict(DictSet(r.v, kNotes, PStr(notes)))

R1 == Details(PFloat(88), PInt(2010), PStr(<<"u">>), PStr(<<"t", "1">>))

R2 == Details(PFloat(80), PInt(2000), PStr(<<"P">>), PStr(<<"X">>))

\* a partial record: one field the records have, one they lack
P1 == PDict(<< <<kNotes, PStr(<<"g">>)>>, <<kRating, PFloat(90)>> >>)

\* the records the storage calls of the model add
Records == {R1, R2, PDict(DictUpdate(R1.v, P1.v))}

\* the partial records the storage calls of the model update with
Partials == {P1, PDict(<<>>)}

StoreTitles == {<<"a">>, <<"b">>}

EmptyDoc == Text(<<LBrace, RBrace>>)

DocOf(v) == Text(JsonDump(v).toks)

Store1 == PDict(<< <<(<<"a">>), R1>> >>)

Store2 == PDict(<< <<(<<"b">>), PDict(DictUpdate(R2.v, P1.v))>>, <<(<<"a">>), R1>> >>)

\* the longest cut-short document a run starts from, in tokens
MaxCut == 3

\* documents cut short: the first n tokens of a document, n = 0 the empty file
CutShort == {Text(SubSeq(DocOf(Store2).toks, 1, n)) : n \in 0..MaxCut}

\* backing files a run can start from: none, one json.load rejects (empty,
\* cut short, not JSON), and a mapping of titles to records
StoreFiles ==
    {Missing, Text(<<Junk>>), EmptyDoc, DocOf(Store1), DocOf(Store2)} \cup CutShort

Unknown == [t |-> "unknown", v |-> <<>>]

NoCall == [op |-> "none", title |-> PNone, arg |-> PNone,
           exc |-> "none", ret |-> PNone, wrote |-> FALSE]

Call(op, title, arg, o) ==
    [op |-> op, title |-> title, arg |-> arg,
     exc |-> o.exc, ret |-> o.ret, wrote |-> o.wrote]

----------------------------------------------------------------------------
\* The storage calls

Init ==
    /\ file \in StoreFiles
    /\ adapters = {}
    /\ last = NoCall
    /\ pre = file
    /\ written = Unknown
    /\ app = "off"
    /\ csvfile = CsvMissing
    /\ csvlast = NoCsvCall

\* a call made and what it left: last is the call, pre the file before it,
\* written the mapping last passed to _write_movies
Record(op, title, arg, o) ==
    /\ file' = o.file
    /\ last' = Call(op, title, arg, o)
    /\ pre' = file
    /\ written' = IF o.wrote THEN o.saved ELSE written
    /\ UNCHANGED <<csvfile, csvlast>>

Construct(variant) ==
    /\ app = "off"
    /\ variant \notin adapters
    /\ adapters' = adapters \cup {variant}
    /\ UNCHANGED app
    /\ Record("init", PNone, PNone,
              IF variant = "storage" THEN InitStorage(file) ELSE InitLegacy(file))

List(via) ==
    /\ app = "off"
    /\ via \in adapters
    /\ UNCHANGED <<adapters, app>>
    /\ Record("list", PNone, PNone, list_movies(file))

Add(via, title, details) ==
    /\ app = "off"
    /\ via \in adapters
    /\ UNCHANGED <<adapters, app>>
    /\ Record("add", PStr(title), details, add_movie(file, title, details))

Delete(via, title) ==
    /\ app = "off"
    /\ via \in adapters
    /\ UNCHANGED <<adapters, app>>
    /\ Record("delete", PStr(title), PNone, delete_movie(file, title))

Update(via, title, details) ==
    /\ app = "off"
    /\ via \in adapters
    /\ UNCHANGED <<adapters, app>>
    /\ Record("update", PStr(title), details, update_movie(file, title, details))

Next ==
    \/ \E variant \in Variants : Construct(variant)
    \/ \E via \in Variants : List(via)
    \/ \E via \in Variants, title \in StoreTitles, details \in Records :
          Add(via, title, details)
    \/ \E via \in Variants, title \in StoreTitles : Delete(via, title)
    \/ \E via \in Variants, title \in StoreTitles, details \in Partials :
          Update(via, title, details)

Spec == Init /\ [][Next]_vars

----------------------------------------------------------------------------
\* The storage calls over any backing file, and save(load())

\* well-formed documents that are no mapping of titles to records, and a file
\* that is not text
OddFiles ==
    {Text(<<Tok("int", 5)>>),
     DocOf(PList(<<PStr(<<"a">>)>>)),
     DocOf(PDict(<< <<(<<"a">>), PInt(5)>> >>)),
     Undecodable}

InitAny ==
    /\ file \in StoreFiles \cup OddFiles
    /\ adapters = {}
    /\ last = NoCall
    /\ pre = file
    /\ written = Unknown
    /\ app = "off"
    /\ csvfile = CsvMissing
    /\ csvlast = NoCsvCall

\* _write_movies(_read_movies())
SaveLoaded(f) ==
    LET r == _read_movies(f)
    IN  IF r.exc # "none" THEN Outcome(r.exc, PNone, f)
        ELSE Saved(r.ret, _write_movies(r.ret))

Resave(via) ==
    /\ app = "off"
    /\ via \in adapters
    /\ UNCHANGED <<adapters, app>>
    /\ Record("resave", PNone, PNone, SaveLoaded(file))

NextAny ==
    \/ Next
    \/ \E via \in Variants : Resave(via)

SpecAny == InitAny /\ [][NextAny]_vars

\* The storage calls with details json.dump rejects

\* details with a set for a rating
RawRecords == {PDict(<< <<kRating, PSet>>, <<kYear, PInt(2010)>> >>)}

NextRaw ==
    \/ Next
    \/ \E via \in Variants, title \in StoreTitles, details \in RawRecords :
          Add(via, title, details)

SpecRaw == Init /\ [][NextRaw]_vars

----------------------------------------------------------------------------
\* Properties of the storage

\* the mapping the call of this state found in the file, and the one it left
Before == _read_movies(pre).ret

After == _read_movies(file).ret

\* C1: after add(t, r) on any mapping, the title already there or not, no error
\* was raised and list() has t with exactly r: the fields of r with the values
\* of r, and no field of the record that was at t before
C1_AddThenList ==
    last.op = "add" =>
        /\ last.exc = "none"
        /\ LET l == list_movies(file)
           IN  /\ l.exc = "none"
               /\ l.ret.t = "dict"
               /\ DictHas(l.ret.v, last.title.v)
               /\ PyEq(DictGet(l.ret.v, last.title.v), last.arg)

\* an add over a record with notes, of a record without
C1_Witness ==
    /\ last.op = "add"
    /\ last.exc = "none"
    /\ DictHas(Before.v, last.title.v)
    /\ DictHas(DictGet(Before.v, last.title.v).v, kNotes)
    /\ ~DictHas(last.arg.v, kNotes)
    /\ Len(After.v) = 2

\* C2: update(t, p) and delete(t) of a title that is no key of the mapping
\* (the file missing or rejected by json.load: the mapping is empty) raise
\* ValueError, do not open the file for writing, and leave the file as it was
C2_AbsentTitleFails ==
    (last.op \in {"update", "delete"} /\ ~DictHas(Before.v, last.title.v)) =>
        /\ last.exc = "ValueError"
        /\ ~last.wrote
        /\ file = pre

\* an update on a file cut short
C2_Witness ==
    /\ last.op = "update"
    /\ pre \in CutShort
    /\ last.exc = "ValueError"
    /\ file = pre

\* C3: after update(t, p) of a title with record r, the record in the file has
\* the fields of r and of p, each with the value of p when p has it and of r
\* otherwise
C3_MergeLaw ==
    (last.op = "update" /\ DictHas(Before.v, last.title.v)) =>
        /\ last.exc = "none"
        /\ After.t = "dict"
        /\ DictHas(After.v, last.title.v)
        /\ LET r == DictGet(Before.v, last.title.v).v
               p == last.arg.v
               n == DictGet(After.v, last.title.v).v
           IN  /\ DictKeys(n) = DictKeys(r) \cup DictKeys(p)
               /\ Len(n) = Cardinality(DictKeys(n))
               /\ \A f \in DictKeys(n) :
                     DictGet(n, f) = IF DictHas(p, f) THEN DictGet(p, f) ELSE DictGet(r, f)

\* an update that adds a field, changes one and keeps the others
C3_Witness ==
    /\ last.op = "update"
    /\ last.exc = "none"
    /\ last.arg = P1
    /\ DictHas(Before.v, last.title.v)
    /\ ~DictHas(DictGet(Before.v, last.title.v).v, kNotes)
    /\ DictGet(DictGet(Before.v, last.title.v).v, kRating) # DictGet(P1.v, kRating)
    /\ DictGet(DictGet(After.v, last.title.v).v, kYear).v \in {2000, 2010}

\* C4: constructing the storage on a path that does not exist leaves the
\* document {} there, and list() then returns the empty mapping
C4_Bootstrap ==
    (last.op = "init" /\ pre.kind = "missing") =>
        /\ file.kind = "text"
        /\ JsonLoad(file.toks) = [ok |-> TRUE, val |-> PDict(<<>>)]
        /\ list_movies(file).exc = "none"
        /\ list_movies(file).ret = PDict(<<>>)

\* a text file that is no document of a mapping: json.load rejects it, or the
\* value it holds is not an object
NotAMapping(f) ==
    /\ f.kind = "text"
    /\ \/ ~JsonLoad(f.toks).ok
       \/ JsonLoad(f.toks).val.t # "dict"

\* C5: list() on a file that is no document of a mapping returns the empty
\* mapping and raises nothing
C5_CorruptLoadsEmpty ==
    (last.op = "list" /\ NotAMapping(pre)) =>
        /\ last.exc = "none"
        /\ last.ret = PDict(<<>>)

\* C6: after a call that opened a file holding a mapping for writing, failed
\* or not, the file is a whole document of the mapping that was in it or of the mapping saved
C6_SaveAtomic ==
    (last.wrote /\ pre.kind = "text" /\ JsonLoad(pre.toks).ok) =>
        /\ file.kind = "text"
        /\ JsonLoad(file.toks).ok
        /\ \/ PyEq(JsonLoad(file.toks).val, Before)
           \/ PyEq(JsonLoad(file.toks).val, written)

\* C7: save(load()) leaves a file that loads as the file did before, and a
\* mapping saved is the mapping loaded next
C7_RoundTrip ==
    /\ (last.op = "resave" /\ last.exc = "none") => PyEq(After, Before)
    /\ (last.wrote /\ last.exc = "none") =>
          /\ _read_movies(file).exc = "none"
          /\ PyEq(After, written)

\* save(load()) of a mapping of two titles, one with notes
C7_Witness ==
    /\ last.op = "resave"
    /\ last.exc = "none"
    /\ Before.t = "dict"
    /\ Len(Before.v) = 2
    /\ \E i \in 1..2 : DictHas(Before.v[i][2].v, kNotes)
    /\ After = Before

\* the mapping a call should save, given the mapping last written
Expected(m, call) ==
    CASE call.op = "add" -> PDict(DictSet(m.v, call.title.v, call.arg))
      [] call.op = "delete" -> PDict(DictDel(m.v, call.title.v))
      [] call.op = "update" ->
            PDict(DictSet(m.v, call.title.v,
                          PDict(DictUpdate(DictGet(m.v, call.title.v).v, call.arg.v))))
      [] OTHER -> m

C8Step ==
    written # Unknown =>
        /\ last'.op = "list" => (last'.exc = "none" /\ PyEq(last'.ret, written))
        /\ (last'.op \in {"add", "delete", "update"} /\ last'.exc = "none") =>
              PyEq(written', Expected(written, last'))

\* C8: whatever storage instances the calls go through, list() returns the
\* mapping last written to the file, and add, delete and update save the
\* mapping last written with their one change
C8_NoStaleReads == [][C8Step]_vars

\* a list() through one of two instances that returns a written mapping of
\* two titles
C8_Witness ==
    /\ last.op = "list"
    /\ adapters = Variants
    /\ written # Unknown
    /\ last.ret = written
    /\ Len(written.v) = 2

\* C11: whatever the file holds that can be read as text (nothing, text
\* json.load rejects, a document that is no object or has a value that is no
\* object, a mapping), list, add, delete and update return or raise ValueError,
\* and no other exception
C11_OnlyNotFound ==
    (last.op \in {"list", "add", "delete", "update"} /\ pre.kind # "bytes") =>
        last.exc \in {"none", "ValueError"}

C13Step ==
    /\ (last'.op = "delete" /\ DictHas(After.v, last'.title.v)) =>
          /\ last'.exc = "none"
          /\ ~DictHas(_read_movies(file').ret.v, last'.title.v)
    /\ (last.op = "delete" /\ last.exc = "none") =>
          /\ last'.op = "list" =>
                (last'.exc = "none" /\ ~DictHas(last'.ret.v, last.title.v))
          /\ (last'.op = "delete" /\ last'.title = last.title) =>
                (last'.exc = "ValueError" /\ file' = file)
    /\ (/\ last.op = "add"
        /\ last.exc = "none"
        /\ Before = PDict(<<>>)
        /\ last'.op = "delete"
        /\ last'.title = last.title) =>
          /\ last'.exc = "none"
          /\ _read_movies(file').ret = PDict(<<>>)

\* C13: delete(t) of a title in the mapping raises nothing and leaves a file
\* without t; after it the next list() has no t and the next delete(t) raises
\* ValueError and leaves the file as it is; add(t, r) on the empty mapping and
\* then delete(t) leave the empty mapping
C13_DeleteLaw == [][C13Step]_vars

\* a delete of one of two titles, after which a second delete would fail
C13_Witness ==
    /\ last.op = "delete"
    /\ last.exc = "none"
    /\ Len(Before.v) = 2
    /\ Len(After.v) = 1
    /\ ~DictHas(After.v, last.title.v)
    /\ delete_movie(file, last.title.v).exc = "ValueError"

\* C15: after an add, update or delete of t that raised nothing, every other
\* title is in the mapping exactly when it was before, with the same record
\* (the same fields in the same order with the same values)
C15_Frame ==
    (last.op \in {"add", "update", "delete"} /\ last.exc = "none") =>
        /\ Before.t = "dict"
        /\ After.t = "dict"
        /\ Len(After.v) = Cardinality(DictKeys(After.v))
        /\ \A u \in (DictKeys(Before.v) \cup DictKeys(After.v)) \ {last.title.v} :
              /\ DictHas(Before.v, u)
              /\ DictHas(After.v, u)
              /\ DictGet(After.v, u) = DictGet(Before.v, u)

\* an add over one of two titles, the other one with notes
C15_Witness ==
    /\ last.op = "add"
    /\ last.exc = "none"
    /\ Len(Before.v) = 2
    /\ DictHas(Before.v, last.title.v)
    /\ \E u \in DictKeys(Before.v) \ {last.title.v} :
          /\ DictHas(DictGet(Before.v, u).v, kNotes)
          /\ DictHas(After.v, u)
          /\ DictGet(After.v, u) = DictGet(Before.v, u)

\* C16: constructing a storage on a path that exists, whatever the file holds,
\* raises nothing, does not open the file for writing and leaves it as it was;
\* a mapping written before the construction is still the one loaded after it
C16_ConstructKeepsFile ==
    /\ (last.op = "init" /\ pre.kind # "missing") =>
          /\ last.exc = "none"
          /\ ~last.wrote
          /\ file = pre
    /\ (last.op = "init" /\ written # Unknown) =>
          _read_movies(file) = _read_movies(pre)

\* the first construction, of storage/storage_json.py, on a mapping of two titles
C16_Witness ==
    /\ last.op = "init"
    /\ adapters = {"storage"}
    /\ pre = DocOf(Store2)
    /\ file = pre
    /\ Len(After.v) = 2

\* text json.load rejects
Unparseable(f) == f.kind = "text" /\ ~JsonLoad(f.toks).ok

----------------------------------------------------------------------------
\* movie_app.py: the menu commands that change the collection, and list

Whitespace == {" ", "\t", "\n"}

RECURSIVE LStrip(_), RStrip(_)
LStrip(s) == IF s # <<>> /\ Head(s) \in Whitespace THEN LStrip(Tail(s)) ELSE s

RStrip(s) ==
    IF s # <<>> /\ s[Len(s)] \in Whitespace THEN RStrip(SubSeq(s, 1, Len(s) - 1)) ELSE s

\* str.strip()
Strip(s) == RStrip(LStrip(s))

UpperCase == <<"A", "B", "C", "D", "E", "F", "G", "H", "I", "J", "K", "L", "M",
               "N", "O", "P", "Q", "R", "S", "T", "U", "V", "W", "X", "Y", "Z">>

LowerCase == <<"a", "b", "c", "d", "e", "f", "g", "h", "i", "j", "k", "l", "m",
               "n", "o", "p", "q", "r", "s", "t", "u", "v", "w", "x", "y", "z">>

LowerChar(c) ==
    IF \E i \in 1..Len(UpperCase) : UpperCase[i] = c
    THEN LowerCase[CHOOSE i \in 1..Len(UpperCase) : UpperCase[i] = c]
    ELSE c

\* str.lower()
Lower(s) == [i \in 1..Len(s) |-> LowerChar(s[i])]

\* a normalisation that forgets to fold the case
strip_movie_name(movie_name) == Strip(movie_name)

normalize_movie_name(movie_name) == Lower(Strip(movie_name))

DigitChars == <<"0", "1", "2", "3", "4", "5", "6", "7", "8", "9">>

DigitVal(c) == (CHOOSE i \in 1..Len(DigitChars) : DigitChars[i] = c) - 1

IsDigits(s) == s # <<>> /\ \A i \in 1..Len(s) : s[i] \in Range(DigitChars)

RECURSIVE DigitsValue(_)
DigitsValue(s) ==
    IF s = <<>> THEN 0
    ELSE DigitsValue(SubSeq(s, 1, Len(s) - 1)) * 10 + DigitVal(s[Len(s)])

Unsigned(s) == IF s # <<>> /\ Head(s) \in {"+", "-"} THEN Tail(s) ELSE s

Signed(s, n) == IF s # <<>> /\ Head(s) = "-" THEN 0 - n ELSE n

\* int(x): a str must be an optional sign and digits, with whitespace around
\* (the underscores int() allows between digits are left out)
PyInt(x) ==
    CASE x.t = "int" -> [exc |-> "none", val |-> x]
      [] x.t = "float" ->
            [exc |-> "none",
             val |-> PInt(IF x.v >= 0 THEN x.v \div 10 ELSE 0 - ((0 - x.v) \div 10))]
      [] x.t = "str" ->
            LET s == Strip(x.v)
            IN  IF IsDigits(Unsigned(s))
                THEN [exc |-> "none", val |-> PInt(Signed(s, DigitsValue(Unsigned(s))))]
                ELSE [exc |-> "ValueError", val |-> PNone]
      [] OTHER -> [exc |-> "TypeError", val |-> PNone]

\* float(x): a str must be an optional sign, digits and at most one point, with
\* whitespace around (exponents, inf and nan are left out; the floats of the
\* model are tenths, and decimals after the first are dropped)
PyFloat(x) ==
    CASE x.t = "float" -> [exc |-> "none", val |-> x]
      [] x.t = "int" -> [exc |-> "none", val |-> PFloat(x.v * 10)]
      [] x.t = "str" ->
            LET s == Strip(x.v)
                u == Unsigned(s)
                dots == {i \in 1..Len(u) : u[i] = "."}
                d == IF dots = {} THEN Len(u) + 1 ELSE CHOOSE i \in dots : TRUE
                ip == SubSeq(u, 1, d - 1)
                fp == SubSeq(u, d + 1, Len(u))
                ok == /\ Cardinality(dots) <= 1
                      /\ ip = <<>> \/ IsDigits(ip)
                      /\ fp = <<>> \/ IsDigits(fp)
                      /\ ip # <<>> \/ fp # <<>>
            IN  IF ok
                THEN [exc |-> "none",
                      val |-> PFloat(Signed(s, DigitsValue(ip) * 10
                                               + (IF fp = <<>> THEN 0 ELSE DigitVal(fp[1]))))]
                ELSE [exc |-> "ValueError", val |-> PNone]
      [] OTHER -> [exc |-> "TypeError", val |-> PNone]

\* dict.get(key, default)
Get(d, key, default) == IF DictHas(d.v, key) THEN DictGet(d.v, key) ELSE default

\* the keys of an OMDb reply
kResponse == <<"R", "e", "s", "p", "o", "n", "s", "e">>

kTitle == <<"T", "i", "t", "l", "e">>

kYearOmdb == <<"Y", "e", "a", "r">>

kImdbRating == <<"i", "m", "d", "b", "R", "a", "t", "i", "n", "g">>

kPosterOmdb == <<"P", "o", "s", "t", "e", "r">>

sFalse == <<"F", "a", "l", "s", "e">>

sTrue == <<"T", "r", "u", "e">>

sNA == <<"N", "/", "A">>

\* what the command printed
Msg(m) == [t |-> "msg", v |-> m]

\* MovieApp.add_movie. reply is what the lookup gave: kind "error" when
\* requests.get or raise_for_status raised, "undecodable" when response.json()
\* raised (requests.exceptions.JSONDecodeError, a RequestException), "json" with
\* the decoded document in data. Only RequestException is caught.
app_add_movie(f, typed, reply) ==
    LET movie_title == Strip(typed)
        normalized_title == normalize_movie_name(movie_title)
        movie_data == reply.data
    IN  IF reply.kind \in {"error", "undecodable"}
        THEN Outcome("none", Msg("api error"), f)
        ELSE IF movie_data.t # "dict" THEN Outcome("AttributeError", PNone, f)
        ELSE IF Get(movie_data, kResponse, PNone) = PStr(sFalse)
        THEN Outcome("none", Msg("not found"), f)
        ELSE LET year == PyInt(Get(movie_data, kYearOmdb, PInt(0)))
                 rating == PyFloat(Get(movie_data, kImdbRating, PFloat(0)))
                 poster_url == Get(movie_data, kPosterOmdb, PStr(sNA))
                 imdbID == Get(movie_data, kImdbID, PStr(sNA))
                 o == add_movie(f, normalized_title,
                               Details(rating.val, year.val, poster_url, imdbID))
             IN  IF year.exc # "none" THEN Outcome(year.exc, PNone, f)
                 ELSE IF rating.exc # "none" THEN Outcome(rating.exc, PNone, f)
                 ELSE IF o.exc # "none" THEN o
                 ELSE [o EXCEPT !.ret = Msg("added")]

\* MovieApp._command_list_movies
command_list_movies(f) ==
    LET o == list_movies(f)
        movies == o.ret
    IN  IF o.exc # "none" THEN o
        ELSE IF movies.v = <<>> \/ (movies.t \in {"int", "float"} /\ movies.v = 0)
                \/ movies.t = "none"
        THEN Outcome("none", Msg("no movies"), f)
        ELSE IF movies.t # "dict" THEN Outcome("AttributeError", PNone, f)
        ELSE IF \E i \in 1..Len(movies.v) : movies.v[i][2].t # "dict"
        THEN Outcome("AttributeError", PNone, f)
        ELSE Outcome("none", Msg("listed"), f)

\* MovieApp.delete_movie: the whole body is in try / except Exception
app_delete_movie(f, typed) ==
    LET movie_title == Strip(typed)
        normalized_title == normalize_movie_name(movie_title)
        l == list_movies(f)
        c == Contains(l.ret, normalized_title)
        o == delete_movie(f, normalized_title)
    IN  IF l.exc # "none" \/ c.exc # "none" THEN Outcome("none", Msg("error"), f)
        ELSE IF ~c.val THEN Outcome("none", Msg("not found"), f)
        ELSE IF o.exc # "none" THEN [o EXCEPT !.exc = "none", !.ret = Msg("error")]
        ELSE [o EXCEPT !.ret = Msg("deleted")]

\* the longest notes update_movie keeps
NotesLimit == 100

\* an update_movie that keeps the notes as typed, however long
app_update_movie_untruncated(f, typed, typed_notes) ==
    LET l == list_movies(f)
        movies == l.ret
        normalized_name == normalize_movie_name(Strip(typed))
        c == Contains(movies, normalized_name)
        notes == Strip(typed_notes)
        movie_details == DictGet(movies.v, normalized_name)
        o == update_movie(f, normalized_name, WithNotes(movie_details, notes))
    IN  IF l.exc # "none" THEN l
        ELSE IF c.exc # "none" THEN Outcome(c.exc, PNone, f)
        ELSE IF ~c.val THEN Outcome("none", Msg("not found"), f)
        ELSE IF movies.t # "dict" \/ movie_details.t # "dict"
        THEN Outcome("TypeError", PNone, f)
        ELSE IF o.exc = "ValueError" THEN [o EXCEPT !.exc = "none", !.ret = Msg("error")]
        ELSE IF o.exc # "none" THEN o
        ELSE [o EXCEPT !.ret = Msg("updated")]

\* MovieApp.update_movie: the record list_movies gave, with the notes put in,
\* goes to the storage's update_movie; only ValueError is caught, and only
\* around that call
app_update_movie(f, typed, typed_notes) ==
    LET l == list_movies(f)
        movies == l.ret
        movie_name == Strip(typed)
        normalized_name == normalize_movie_name(movie_name)
        c == Contains(movies, normalized_name)
        stripped == Strip(typed_notes)
        notes == SubSeq(stripped, 1, IF Len(stripped) < NotesLimit THEN Len(stripped)
                                     ELSE NotesLimit)
        movie_details == DictGet(movies.v, normalized_name)
        o == update_movie(f, normalized_name, WithNotes(movie_details, notes))
    IN  IF l.exc # "none" THEN l
        ELSE IF c.exc # "none" THEN Outcome(c.exc, PNone, f)
        ELSE IF ~c.val THEN Outcome("none", Msg("not found"), f)
        ELSE IF movies.t # "dict" \/ movie_details.t # "dict"
        THEN Outcome("TypeError", PNone, f)
        ELSE IF o.exc = "ValueError" THEN [o EXCEPT !.exc = "none", !.ret = Msg("error")]
        ELSE IF o.exc # "none" THEN o
        ELSE [o EXCEPT !.ret = Msg("updated")]

\* what the user types for a title
TypedTitles == {<<"a">>, <<" ", "A", " ">>, <<"B">>, <<"b", " ">>}

Repeat(c, n) == [i \in 1..n |-> c]

\* what the user types for notes: short, and one character over the limit
TypedNotes == {<<" ", "g", " ">>, Repeat("x", NotesLimit + 1)}

Reply(kind, data) == [kind |-> kind, data |-> data]

OmdbFound(year, rating) ==
    PDict(<< <<kResponse, PStr(sTrue)>>, <<kTitle, PStr(<<"A">>)>>,
             <<kYearOmdb, PStr(year)>>, <<kImdbRating, PStr(rating)>>,
             <<kPosterOmdb, PStr(<<"u">>)>>, <<kImdbID, PStr(<<"t", "1">>)>> >>)

\* what the lookup answers: a transport or HTTP error, a body that is no JSON,
\* not found, a movie, a movie with none of the optional keys, a series with a
\* range of years, a movie without a rating
Replies ==
    {Reply("error", PNone),
     Reply("undecodable", PNone),
     Reply("json", PDict(<< <<kResponse, PStr(sFalse)>> >>)),
     Reply("json", OmdbFound(<<"2", "0", "1", "0">>, <<"8", ".", "8">>)),
     Reply("json", PDict(<< <<kResponse, PStr(sTrue)>> >>)),
     Reply("json", OmdbFound(<<"2", "0", "1", "0", "-", "2", "0", "1", "5">>, <<"8", ".", "0">>)),
     Reply("json", OmdbFound(<<"2", "0", "1", "0">>, sNA))}

\* main() has not run: the path holds no file, or what an earlier run left
InitMenu ==
    /\ file \in {Missing, EmptyDoc} \cup CutShort
    /\ adapters = {}
    /\ last = NoCall
    /\ pre = file
    /\ written = Unknown
    /\ app = "off"
    /\ csvfile = CsvMissing
    /\ csvlast = NoCsvCall

\* main: StorageJson('data/movies.json'), MovieApp(storage), run()
Main ==
    /\ app = "off"
    /\ adapters = {}
    /\ adapters' = {"storage"}
    /\ app' = "menu"
    /\ Record("init", PNone, PNone, InitStorage(file))

\* a command of the loop of run(): an exception that escapes the command
\* escapes run() and ends the program
Command(op, title, arg, o) ==
    /\ app = "menu"
    /\ app' = IF o.exc = "none" THEN "menu" ELSE "crashed"
    /\ UNCHANGED adapters
    /\ Record(op, title, arg, o)

MenuList == Command("menu_list", PNone, PNone, command_list_movies(file))

MenuAdd(typed, reply) ==
    Command("menu_add", PStr(typed), reply.data, app_add_movie(file, typed, reply))

MenuDelete(typed) ==
    Command("menu_delete", PStr(typed), PNone, app_delete_movie(file, typed))

MenuUpdate(typed, typed_notes) ==
    Command("menu_update", PStr(typed), PStr(typed_notes),
            app_update_movie(file, typed, typed_notes))

\* choice "0"
MenuExit ==
    /\ app = "menu"
    /\ app' = "exited"
    /\ UNCHANGED <<file, adapters, pre, written, csvfile, csvlast>>
    /\ last' = [NoCall EXCEPT !.op = "menu_exit"]

NextMenu ==
    \/ Main
    \/ MenuList
    \/ \E typed \in TypedTitles, reply \in Replies : MenuAdd(typed, reply)
    \/ \E typed \in TypedTitles : MenuDelete(typed)
    \/ \E typed \in TypedTitles, typed_notes \in TypedNotes : MenuUpdate(typed, typed_notes)
    \/ MenuExit

SpecMenu == InitMenu /\ [][NextMenu]_vars

----------------------------------------------------------------------------
\* Properties of the menu

\* C9: whatever titles are typed into add, delete and update, every key of the
\* collection is its own normalisation (stripped, lower case), and no two keys
\* normalise to the same title
C9_KeysNormalized ==
    /\ After.t = "dict"
    /\ \A k \in DictKeys(After.v) : Lower(Strip(k)) = k
    /\ Cardinality({Lower(Strip(k)) : k \in DictKeys(After.v)}) = Len(After.v)

\* an add typed with capitals and spaces, of a title the collection had
C9_Witness ==
    /\ last.op = "menu_add"
    /\ last.ret = Msg("added")
    /\ last.title.v # Lower(Strip(last.title.v))
    /\ DictHas(Before.v, Lower(Strip(last.title.v)))
    /\ Len(After.v) = 2

\* C10: whatever the lookup answers, the add command ends with the loop still
\* running, and with the file as it was unless the movie was added
C10_LookupNeverEndsLoop ==
    last.op = "menu_add" =>
        /\ app = "menu"
        /\ last.exc = "none"
        /\ last.ret # Msg("added") => file = pre

\* C12: from a collection with no movie, whatever the commands and however
\* long the notes typed, the file is a mapping in which every record that has
\* notes has a str of at most 100 characters
C12_NotesBound ==
    /\ After.t = "dict"
    /\ \A i \in 1..Len(After.v) :
          LET r == After.v[i][2]
          IN  (r.t = "dict" /\ DictHas(r.v, kNotes)) =>
                 /\ DictGet(r.v, kNotes).t = "str"
                 /\ Len(DictGet(r.v, kNotes).v) <= NotesLimit

\* an update typed with more characters than the limit, kept up to the limit
C12_Witness ==
    /\ last.op = "menu_update"
    /\ last.ret = Msg("updated")
    /\ Len(Strip(last.arg.v)) > NotesLimit
    /\ LET r == DictGet(After.v, Lower(Strip(last.title.v)))
       IN  /\ DictHas(r.v, kNotes)
           /\ Len(DictGet(r.v, kNotes).v) = NotesLimit

----------------------------------------------------------------------------
\* StorageCsv (storage_csv.py)

kTitleCsv == <<"t", "i", "t", "l", "e">>

\* fieldnames = ['title', 'rating', 'year']
fieldnames == <<kTitleCsv, kRating, kYear>>

\* the decimal digits of a natural number
RECURSIVE Digits(_)
Digits(n) ==
    IF n < 10 THEN <<DigitChars[n + 1]>>
    ELSE Append(Digits(n \div 10), DigitChars[(n % 10) + 1])

Abs(n) == IF n < 0 THEN 0 - n ELSE n

\* the text csv.writer puts in a cell: a str as it is, None as the empty text,
\* anything else through str() (a float of the model, in tenths, prints with one
\* decimal; "?" stands for the text of a container). The quoting csv.writer
\* adds around a cell is taken off again by csv.reader and is left out.
CellText(x) ==
    CASE x.t = "str" -> x.v
      [] x.t = "none" -> <<>>
      [] x.t = "int" -> (IF x.v < 0 THEN <<"-">> ELSE <<>>) \o Digits(Abs(x.v))
      [] x.t = "float" ->
            (IF x.v < 0 THEN <<"-">> ELSE <<>>)
               \o Digits(Abs(x.v) \div 10) \o <<".">> \o Digits(Abs(x.v) % 10)
      [] OTHER -> <<"?">>

\* the cell of a row under a column of the header: csv.DictReader gives None
\* for the cells a short row lacks
Cell(header, row, name) ==
    LET j == CHOOSE j \in 1..Len(header) : header[j] = name
    IN  IF j <= Len(row) THEN PStr(row[j]) ELSE PNone

\* the rows of csv.DictReader from line i on: the first line is the header,
\* blank lines are skipped, row['title'] raises KeyError without that column
RECURSIVE ReadRows(_, _, _)
ReadRows(rows, i, movies) ==
    IF i > Len(rows) THEN [exc |-> "none", ret |-> PDict(movies)]
    ELSE IF rows[i] = <<>> THEN ReadRows(rows, i + 1, movies)
    ELSE IF ~(Range(fieldnames) \subseteq Range(rows[1]))
    THEN [exc |-> "KeyError", ret |-> PNone]
    ELSE LET title == Cell(rows[1], rows[i], kTitleCsv)
             rating == PyFloat(Cell(rows[1], rows[i], kRating))
             year == PyInt(Cell(rows[1], rows[i], kYear))
         IN  IF rating.exc # "none" THEN [exc |-> rating.exc, ret |-> PNone]
             ELSE IF year.exc # "none" THEN [exc |-> year.exc, ret |-> PNone]
             ELSE ReadRows(rows, i + 1,
                           DictSet(movies, title.v,
                                   PDict(<< <<kRating, rating.val>>, <<kYear, year.val>> >>)))

\* StorageCsv._read_movies: FileNotFoundError is caught and gives {}
csv_read_movies(c) ==
    IF c.kind = "missing" \/ c.rows = <<>>
    THEN [exc |-> "none", ret |-> PDict(<<>>)]
    ELSE ReadRows(c.rows, 2, <<>>)

\* the rows writer.writerow writes from movie i on: the title, details['rating']
\* and details['year'], and no other field
RECURSIVE WriteRows(_, _)
WriteRows(d, i) ==
    IF i > Len(d) THEN [exc |-> "none", rows |-> <<>>]
    ELSE LET details == d[i][2]
         IN  IF details.t # "dict" THEN [exc |-> "TypeError", rows |-> <<>>]
             ELSE IF ~DictHas(details.v, kRating) \/ ~DictHas(details.v, kYear)
             THEN [exc |-> "KeyError", rows |-> <<>>]
             ELSE LET row == <<d[i][1], CellText(DictGet(details.v, kRating)),
                               CellText(DictGet(details.v, kYear))>>
                      rest == WriteRows(d, i + 1)
                  IN  [exc |-> rest.exc, rows |-> <<row>> \o rest.rows]

\* StorageCsv._write_movies: open(file_name, 'w'), the header, a row a movie
csv_write_movies(movies) ==
    LET w == WriteRows(movies.v, 1)
    IN  [exc |-> w.exc, file |-> CsvFile(<<fieldnames>> \o w.rows)]

\* StorageCsv.list_movies
csv_list_movies(c) ==
    LET r == csv_read_movies(c)
    IN  CsvOutcome(r.exc, r.ret, c)

\* StorageCsv.add_movie
csv_add_movie(c, title, details) ==
    LET r == csv_list_movies(c)
    IN  IF r.exc # "none" THEN CsvOutcome(r.exc, PNone, c)
        ELSE LET w == csv_write_movies(PDict(DictSet(r.ret.v, title, details)))
             IN  CsvOutcome(w.exc, PNone, w.file)

\* StorageCsv.delete_movie: a title that is not in the mapping is let pass
csv_delete_movie(c, title) ==
    LET r == csv_read_movies(c)
    IN  IF r.exc # "none" THEN CsvOutcome(r.exc, PNone, c)
        ELSE IF ~DictHas(r.ret.v, title) THEN CsvOutcome("none", PNone, c)
        ELSE LET w == csv_write_movies(PDict(DictDel(r.ret.v, title)))
             IN  CsvOutcome(w.exc, PNone, w.file)

\* StorageCsv.update_movie: ValueError when the title is not in the mapping
csv_update_movie(c, title, details) ==
    LET r == csv_read_movies(c)
    IN  IF r.exc # "none" THEN CsvOutcome(r.exc, PNone, c)
        ELSE IF ~DictHas(r.ret.v, title) THEN CsvOutcome("ValueError", PNone, c)
        ELSE LET merged == PDict(DictUpdate(DictGet(r.ret.v, title).v, details.v))
                 w == csv_write_movies(PDict(DictSet(r.ret.v, title, merged)))
             IN  CsvOutcome(w.exc, PNone, w.file)

\* The same calls on a StorageJson and on a StorageCsv, each on its own file

InitBoth ==
    /\ file = Missing
    /\ adapters = {}
    /\ last = NoCall
    /\ pre = file
    /\ written = Unknown
    /\ app = "off"
    /\ csvfile = CsvMissing
    /\ csvlast = NoCsvCall

\* a call made on both: o is what it left on the StorageJson, oc on the StorageCsv
RecordBoth(op, title, arg, o, oc) ==
    /\ file' = o.file
    /\ last' = Call(op, title, arg, o)
    /\ pre' = file
    /\ written' = IF o.wrote THEN o.saved ELSE written
    /\ csvfile' = oc.file
    /\ csvlast' = [exc |-> oc.exc, ret |-> oc.ret]

\* StorageJson(path) of storage/storage_json.py and StorageCsv(file_name)
ConstructBoth ==
    /\ app = "off"
    /\ adapters = {}
    /\ adapters' = {"storage", "csv"}
    /\ UNCHANGED app
    /\ RecordBoth("init", PNone, PNone, InitStorage(file),
                  CsvOutcome("none", PNone, csvfile))

ListBoth ==
    /\ app = "off"
    /\ adapters = {"storage", "csv"}
    /\ UNCHANGED <<adapters, app>>
    /\ RecordBoth("list", PNone, PNone, list_movies(file), csv_list_movies(csvfile))

AddBoth(title, details) ==
    /\ app = "off"
    /\ adapters = {"storage", "csv"}
    /\ UNCHANGED <<adapters, app>>
    /\ RecordBoth("add", PStr(title), details, add_movie(file, title, details),
                  csv_add_movie(csvfile, title, details))

DeleteBoth(title) ==
    /\ app = "off"
    /\ adapters = {"storage", "csv"}
    /\ UNCHANGED <<adapters, app>>
    /\ RecordBoth("delete", PStr(title), PNone, delete_movie(file, title),
                  csv_delete_movie(csvfile, title))

UpdateBoth(title, details) ==
    /\ app = "off"
    /\ adapters = {"storage", "csv"}
    /\ UNCHANGED <<adapters, app>>
    /\ RecordBoth("update", PStr(title), details, update_movie(file, title, details),
                  csv_update_movie(csvfile, title, details))

NextBoth ==
    \/ ConstructBoth
    \/ ListBoth
    \/ \E title \in StoreTitles, details \in Records : AddBoth(title, details)
    \/ \E title \in StoreTitles : DeleteBoth(title)
    \/ \E title \in StoreTitles, details \in Partials : UpdateBoth(title, details)

SpecBoth == InitBoth /\ [][NextBoth]_vars

\* C14: after the same calls from no file, a call on the StorageCsv ends as the
\* call on the StorageJson does (returns, or raises the same exception), returns
\* what it returns, and list() on the one gives the mapping list() gives on the
\* other
C14_SameAsJson ==
    last.op \in {"list", "add", "update", "delete"} =>
        /\ csvlast.exc = last.exc
        /\ PyEq(csvlast.ret, last.ret)
        /\ csv_list_movies(csvfile).exc = list_movies(file).exc
        /\ PyEq(csv_list_movies(csvfile).ret, list_movies(file).ret)

====
